---------------------------- MODULE Spec2Model ----------------------------
(***************************************************************************)
(* Model of coursebuilder/modules/lti/fields.py (LTI request field         *)
(* validation and the page-to-page serializer) and of the retry loops of   *)
(* coursebuilder/tests/integration/integration.py (TestBase.setUp and      *)
(* TestBase.load_root_page).                                               *)
(*                                                                         *)
(* Python 2 str values are byte strings: a str is modelled as the sequence *)
(* of its byte codes, so that str comparison (sorted), startswith, lower   *)
(* and base64 act on the bytes as the interpreter's do.  Each literal is   *)
(* given in a comment above its definition.                                *)
(***************************************************************************)
EXTENDS Integers, Sequences, FiniteSets

VARIABLES
    _DEFAULTS,     \* the module-level dict _DEFAULTS of fields.py
    fields,        \* the caller's field dict, passed as from_dict / request_dict
    yaml_text,     \* the caller's YAML text, passed as fields_str
    transport,     \* the last string returned by _Serializer.dump
    last,          \* the last call of fields.py: its inputs and its outcome
    overridden,    \* some make call so far was given its own lti_message_type or lti_version
    pc,            \* position of the integration test (TestBase)
    driver,        \* self.driver: 0 is None, n > 0 the driver made by attempt n
    tries,         \* local `tries` of setUp / load_root_page
    attempts,      \* number of webdriver.Chrome(...) calls made by setUp
    ex,            \* the exception bound by the last `except ..., ex` (0: none)
    raised,        \* the exception that left setUp (0: none)
    window_size,   \* the size given to driver.set_window_size (<<>>: not called)
    loads,         \* number of RootPage.load calls of the current load_root_page
    page_unavail,  \* 'This webpage is not avail' in self.driver.page_source
    first_unavail, \* page_unavail as it was after the first load of the call
    ret,           \* local `ret` of load_root_page: n is the result of load n
    returned,      \* the value returned by the last load_root_page (0: none)
    calls          \* number of load_root_page calls that have returned

vars == <<_DEFAULTS, fields, yaml_text, transport, last, overridden, pc, driver, tries,
          attempts, ex, raised, window_size, loads, page_unavail, first_unavail,
          ret, returned, calls>>

lti_vars == <<_DEFAULTS, fields, yaml_text, transport, last, overridden>>

test_vars == <<pc, driver, tries, attempts, ex, raised, window_size, loads,
               page_unavail, first_unavail, ret, returned, calls>>

(***************************************************************************)
(* fields.py: the field names of the LTI spec (lines 28-59).               *)
(***************************************************************************)
\* 'context_id'
CONTEXT_ID == <<99, 111, 110, 116, 101, 120, 116, 95, 105, 100>>
\* 'context_label'
CONTEXT_LABEL == <<99, 111, 110, 116, 101, 120, 116, 95, 108, 97, 98, 101, 108>>
\* 'context_title'
CONTEXT_TITLE == <<99, 111, 110, 116, 101, 120, 116, 95, 116, 105, 116, 108, 101>>
\* 'context_type'
CONTEXT_TYPE == <<99, 111, 110, 116, 101, 120, 116, 95, 116, 121, 112, 101>>
\* 'launch_presentation_css_url'
LAUNCH_PRESENTATION_CSS_URL == <<108, 97, 117, 110, 99, 104, 95, 112, 114, 101, 115, 101, 110, 116, 97, 116, 105, 111, 110, 95, 99, 115, 115, 95, 117, 114, 108>>
\* 'launch_presentation_document_target'
LAUNCH_PRESENTATION_DOCUMENT_TARGET == <<108, 97, 117, 110, 99, 104, 95, 112, 114, 101, 115, 101, 110, 116, 97, 116, 105, 111, 110, 95, 100, 111, 99, 117, 109, 101, 110, 116, 95, 116, 97, 114, 103, 101, 116>>
\* 'launch_presentation_height'
LAUNCH_PRESENTATION_HEIGHT == <<108, 97, 117, 110, 99, 104, 95, 112, 114, 101, 115, 101, 110, 116, 97, 116, 105, 111, 110, 95, 104, 101, 105, 103, 104, 116>>
\* 'launch_presentation_locale'
LAUNCH_PRESENTATION_LOCALE == <<108, 97, 117, 110, 99, 104, 95, 112, 114, 101, 115, 101, 110, 116, 97, 116, 105, 111, 110, 95, 108, 111, 99, 97, 108, 101>>
\* 'launch_presentation_return_url'
LAUNCH_PRESENTATION_RETURN_URL == <<108, 97, 117, 110, 99, 104, 95, 112, 114, 101, 115, 101, 110, 116, 97, 116, 105, 111, 110, 95, 114, 101, 116, 117, 114, 110, 95, 117, 114, 108>>
\* 'launch_presentation_width'
LAUNCH_PRESENTATION_WIDTH == <<108, 97, 117, 110, 99, 104, 95, 112, 114, 101, 115, 101, 110, 116, 97, 116, 105, 111, 110, 95, 119, 105, 100, 116, 104>>
\* 'lis_person_contact_email_primary'
LIS_PERSON_CONTACT_EMAIL_PRIMARY == <<108, 105, 115, 95, 112, 101, 114, 115, 111, 110, 95, 99, 111, 110, 116, 97, 99, 116, 95, 101, 109, 97, 105, 108, 95, 112, 114, 105, 109, 97, 114, 121>>
\* 'lis_person_name_family'
LIS_PERSON_NAME_FAMILY == <<108, 105, 115, 95, 112, 101, 114, 115, 111, 110, 95, 110, 97, 109, 101, 95, 102, 97, 109, 105, 108, 121>>
\* 'lis_person_name_full'
LIS_PERSON_NAME_FULL == <<108, 105, 115, 95, 112, 101, 114, 115, 111, 110, 95, 110, 97, 109, 101, 95, 102, 117, 108, 108>>
\* 'lis_person_name_given'
LIS_PERSON_NAME_GIVEN == <<108, 105, 115, 95, 112, 101, 114, 115, 111, 110, 95, 110, 97, 109, 101, 95, 103, 105, 118, 101, 110>>
\* 'lti_message_type'
LTI_MESSAGE_TYPE == <<108, 116, 105, 95, 109, 101, 115, 115, 97, 103, 101, 95, 116, 121, 112, 101>>
\* 'lti_version'
LTI_VERSION == <<108, 116, 105, 95, 118, 101, 114, 115, 105, 111, 110>>
\* 'resource_link_description'
RESOURCE_LINK_DESCRIPTION == <<114, 101, 115, 111, 117, 114, 99, 101, 95, 108, 105, 110, 107, 95, 100, 101, 115, 99, 114, 105, 112, 116, 105, 111, 110>>
\* 'resource_link_id'
RESOURCE_LINK_ID == <<114, 101, 115, 111, 117, 114, 99, 101, 95, 108, 105, 110, 107, 95, 105, 100>>
\* 'resource_link_title'
RESOURCE_LINK_TITLE == <<114, 101, 115, 111, 117, 114, 99, 101, 95, 108, 105, 110, 107, 95, 116, 105, 116, 108, 101>>
\* 'role_scope_mentor'
ROLE_SCOPE_MENTOR == <<114, 111, 108, 101, 95, 115, 99, 111, 112, 101, 95, 109, 101, 110, 116, 111, 114>>
\* 'roles'
ROLES == <<114, 111, 108, 101, 115>>
\* 'tool_consumer_info_product_family_code'
TOOL_CONSUMER_INFO_PRODUCT_FAMILY_CODE == <<116, 111, 111, 108, 95, 99, 111, 110, 115, 117, 109, 101, 114, 95, 105, 110, 102, 111, 95, 112, 114, 111, 100, 117, 99, 116, 95, 102, 97, 109, 105, 108, 121, 95, 99, 111, 100, 101>>
\* 'tool_consumer_info_version'
TOOL_CONSUMER_INFO_VERSION == <<116, 111, 111, 108, 95, 99, 111, 110, 115, 117, 109, 101, 114, 95, 105, 110, 102, 111, 95, 118, 101, 114, 115, 105, 111, 110>>
\* 'tool_consumer_instance_contact_email'
TOOL_CONSUMER_INSTANCE_CONTACT_EMAIL == <<116, 111, 111, 108, 95, 99, 111, 110, 115, 117, 109, 101, 114, 95, 105, 110, 115, 116, 97, 110, 99, 101, 95, 99, 111, 110, 116, 97, 99, 116, 95, 101, 109, 97, 105, 108>>
\* 'tool_consumer_instance_description'
TOOL_CONSUMER_INSTANCE_DESCRIPTION == <<116, 111, 111, 108, 95, 99, 111, 110, 115, 117, 109, 101, 114, 95, 105, 110, 115, 116, 97, 110, 99, 101, 95, 100, 101, 115, 99, 114, 105, 112, 116, 105, 111, 110>>
\* 'tool_consumer_instance_guid'
TOOL_CONSUMER_INSTANCE_GUID == <<116, 111, 111, 108, 95, 99, 111, 110, 115, 117, 109, 101, 114, 95, 105, 110, 115, 116, 97, 110, 99, 101, 95, 103, 117, 105, 100>>
\* 'tool_consumer_instance_name'
TOOL_CONSUMER_INSTANCE_NAME == <<116, 111, 111, 108, 95, 99, 111, 110, 115, 117, 109, 101, 114, 95, 105, 110, 115, 116, 97, 110, 99, 101, 95, 110, 97, 109, 101>>
\* 'tool_consumer_instance_url'
TOOL_CONSUMER_INSTANCE_URL == <<116, 111, 111, 108, 95, 99, 111, 110, 115, 117, 109, 101, 114, 95, 105, 110, 115, 116, 97, 110, 99, 101, 95, 117, 114, 108>>
\* 'user_id'
USER_ID == <<117, 115, 101, 114, 95, 105, 100>>
\* 'user_image'
USER_IMAGE == <<117, 115, 101, 114, 95, 105, 109, 97, 103, 101>>

_BASE == {
    CONTEXT_ID,
    CONTEXT_LABEL,
    CONTEXT_TITLE,
    CONTEXT_TYPE,
    LAUNCH_PRESENTATION_CSS_URL,
    LAUNCH_PRESENTATION_DOCUMENT_TARGET,
    LAUNCH_PRESENTATION_HEIGHT,
    LAUNCH_PRESENTATION_LOCALE,
    LAUNCH_PRESENTATION_RETURN_URL,
    LAUNCH_PRESENTATION_WIDTH,
    LIS_PERSON_CONTACT_EMAIL_PRIMARY,
    LIS_PERSON_NAME_FAMILY,
    LIS_PERSON_NAME_FULL,
    LIS_PERSON_NAME_GIVEN,
    LTI_MESSAGE_TYPE,
    LTI_VERSION,
    RESOURCE_LINK_DESCRIPTION,
    RESOURCE_LINK_ID,
    RESOURCE_LINK_TITLE,
    ROLE_SCOPE_MENTOR,
    ROLES,
    TOOL_CONSUMER_INFO_PRODUCT_FAMILY_CODE,
    TOOL_CONSUMER_INFO_VERSION,
    TOOL_CONSUMER_INSTANCE_CONTACT_EMAIL,
    TOOL_CONSUMER_INSTANCE_DESCRIPTION,
    TOOL_CONSUMER_INSTANCE_GUID,
    TOOL_CONSUMER_INSTANCE_NAME,
    TOOL_CONSUMER_INSTANCE_URL,
    USER_ID,
    USER_IMAGE}

\* 'custom_'
_CUSTOM_PREFIX == <<99, 117, 115, 116, 111, 109, 95>>

\* CB extensions (lines 96-111).
\* _CUSTOM_PREFIX + 'cb_force_login'
CUSTOM_CB_FORCE_LOGIN == _CUSTOM_PREFIX \o <<99, 98, 95, 102, 111, 114, 99, 101, 95, 108, 111, 103, 105, 110>>
\* _CUSTOM_PREFIX + 'cb_resource'
CUSTOM_CB_RESOURCE == _CUSTOM_PREFIX \o <<99, 98, 95, 114, 101, 115, 111, 117, 114, 99, 101>>

_EXTENSIONS == {CUSTOM_CB_FORCE_LOGIN, CUSTOM_CB_RESOURCE}

\* sorted(_BASE.union(_EXTENSIONS)); the list is only ever tested for membership.
_ALL == _BASE \cup _EXTENSIONS

\* 'basic-lti-launch-request'
_LTI_MESSAGE_TYPE_VALID == <<98, 97, 115, 105, 99, 45, 108, 116, 105, 45, 108, 97, 117, 110, 99, 104, 45, 114, 101, 113, 117, 101, 115, 116>>
\* 'LTI-1p0'
_LTI_VERSION_VALID == <<76, 84, 73, 45, 49, 112, 48>>
\* 'student'
_ROLE_STUDENT == <<115, 116, 117, 100, 101, 110, 116>>

_REQUIRED == {LTI_MESSAGE_TYPE, LTI_VERSION, RESOURCE_LINK_ID}

(***************************************************************************)
(* Python values.  A value is tagged with its type; v holds the bytes of a *)
(* str, nothing for None, and <<1>> / <<0>> for True / False.              *)
(***************************************************************************)
Str(s) == [t |-> "str", v |-> s]

None == [t |-> "NoneType", v |-> <<>>]

Bool(b) == [t |-> "bool", v |-> IF b THEN <<1>> ELSE <<0>>]

\* {}
EmptyDict == [k \in {} |-> None]

\* d[k] = v
DictSet(d, k, v) == [x \in DOMAIN d \cup {k} |-> IF x = k THEN v ELSE d[x]]

\* d.get(k)
DictGet(d, k) == IF k \in DOMAIN d THEN d[k] ELSE None

\* What a call does: it returns a value or raises.  A message built as
\* fmt % ', '.join(names) is kept as fmt and the joined names in their order.
Return(value) == [kind |-> "return", value |-> value]

Raise(exc, fmt, names) == [kind |-> "raise", exc |-> exc, fmt |-> fmt, names |-> names]

\* s.startswith(prefix)
startswith(s, prefix) ==
    /\ Len(s) >= Len(prefix)
    /\ SubSeq(s, 1, Len(prefix)) = prefix

\* s.lower(): 'A'..'Z' (65..90) become 'a'..'z'
lower(s) == [i \in 1..Len(s) |-> IF s[i] \in 65..90 THEN s[i] + 32 ELSE s[i]]

\* a < b on str: the first differing byte decides, then the length
RECURSIVE StrLessFrom(_, _, _)
StrLessFrom(a, b, i) ==
    IF i > Len(b) THEN FALSE
    ELSE IF i > Len(a) THEN TRUE
    ELSE IF a[i] # b[i] THEN a[i] < b[i]
    ELSE StrLessFrom(a, b, i + 1)

StrLess(a, b) == StrLessFrom(a, b, 1)

\* sorted(names), names a list of str: x goes before the first element greater than it
RECURSIVE SortedInsert(_, _)
SortedInsert(s, x) ==
    IF s = <<>> THEN <<x>>
    ELSE IF StrLess(x, Head(s)) THEN <<x>> \o s
    ELSE <<Head(s)>> \o SortedInsert(Tail(s), x)

RECURSIVE sorted(_)
sorted(names) ==
    IF names = <<>> THEN <<>>
    ELSE SortedInsert(sorted(SubSeq(names, 1, Len(names) - 1)), names[Len(names)])

\* A set handed to sorted() is iterated in some order first.
RECURSIVE SetIter(_)
SetIter(S) ==
    IF S = {} THEN <<>>
    ELSE LET x == CHOOSE y \in S : TRUE IN <<x>> \o SetIter(S \ {x})

\* The orders in which the entries of a dict with keys S can be visited.
Orders(S) ==
    {o \in [1..Cardinality(S) -> S] : \A i, j \in 1..Cardinality(S) : i # j => o[i] # o[j]}

(***************************************************************************)
(* fields.py, lines 124-149.                                               *)
(***************************************************************************)
DEFAULTS_AT_IMPORT ==
    [k \in {LTI_MESSAGE_TYPE, LTI_VERSION} |->
        IF k = LTI_MESSAGE_TYPE THEN Str(_LTI_MESSAGE_TYPE_VALID)
        ELSE Str(_LTI_VERSION_VALID)]

_is_valid(name) == name \in _ALL \/ startswith(name, _CUSTOM_PREFIX)

\* 'true'
TRUE_LITERAL == <<116, 114, 117, 101>>

\* the value is compared as it is
get_custom_cb_force_login_case_sensitive(request_dict) ==
    LET value == DictGet(request_dict, CUSTOM_CB_FORCE_LOGIN) IN
    IF value = None THEN Return(Bool(FALSE))
    ELSE IF value.t # "str" THEN Raise("AttributeError", "no attribute 'lower'", <<>>)
    ELSE Return(Bool(value.v = TRUE_LITERAL))

get_custom_cb_force_login(request_dict) ==
    LET value == DictGet(request_dict, CUSTOM_CB_FORCE_LOGIN) IN
    IF value = None THEN Return(Bool(FALSE))
    ELSE IF value.t # "str" THEN Raise("AttributeError", "no attribute 'lower'", <<>>)
    ELSE Return(Bool(lower(value.v) = TRUE_LITERAL))

lti_message_type_valid(message_type) == message_type = Str(_LTI_MESSAGE_TYPE_VALID)

lti_version_valid(version) == version = Str(_LTI_VERSION_VALID)

\* bool(resource_link_id)
resource_link_id_valid(resource_link_id) ==
    /\ resource_link_id # None
    /\ resource_link_id # Bool(FALSE)
    /\ resource_link_id # Str(<<>>)

(***************************************************************************)
(* fields.py, make (lines 152-190).  Dicts are objects: the heap maps the  *)
(* three references make holds (_DEFAULTS, from_dict, to_dict) to their    *)
(* contents, so that a write through one reference is seen through every   *)
(* other reference to the same object.                                     *)
(***************************************************************************)
\* to_dict = {}: the defaults are left out
make_to_dict_empty(heap) ==
    [ref |-> "to_dict", heap |-> [heap EXCEPT !["to_dict"] = EmptyDict]]

\* to_dict = _DEFAULTS: to_dict is the module's dict itself
make_to_dict_alias(heap) == [ref |-> "_DEFAULTS", heap |-> heap]

\* line 171: to_dict = dict(_DEFAULTS), a new dict with the entries of _DEFAULTS
make_to_dict(heap) ==
    [ref |-> "to_dict", heap |-> [heap EXCEPT !["to_dict"] = heap["_DEFAULTS"]]]

\* lines 174-178: the body of the loop for one entry (k, v)
make_entry(st, k, v) ==
    LET missing == st.missing \ {k} IN
    IF ~_is_valid(k)
    THEN [st EXCEPT !.missing = missing, !.bad_fields = Append(@, k)]
    ELSE [st EXCEPT !.missing = missing,
                    !.heap = [@ EXCEPT ![st.to_dict] = DictSet(@, k, v)]]

\* the loop gives up at the first bad field
RECURSIVE make_loop_stop_at_bad(_, _, _)
make_loop_stop_at_bad(st, order, i) ==
    IF i > Len(order) \/ st.bad_fields # <<>> THEN st
    ELSE make_loop_stop_at_bad(
             make_entry(st, order[i], st.heap["from_dict"][order[i]]), order, i + 1)

\* line 173: for k, v in from_dict.iteritems(), visiting the keys in `order`
RECURSIVE make_loop(_, _, _)
make_loop(st, order, i) ==
    IF i > Len(order) THEN st
    ELSE make_loop(make_entry(st, order[i], st.heap["from_dict"][order[i]]), order, i + 1)

\* the bad fields are joined as collected
make_bad_fields_error_unsorted(bad_fields) ==
    Raise("ValueError", "Cannot include bad fields: %s", bad_fields)

\* lines 180-183
make_bad_fields_error(bad_fields) ==
    Raise("ValueError", "Cannot include bad fields: %s", sorted(bad_fields))

\* every required field is reported
make_missing_error_all_required(missing) ==
    Raise("ValueError", "Missing required fields: %s", sorted(SetIter(_REQUIRED)))

\* lines 185-188
make_missing_error(missing) ==
    Raise("ValueError", "Missing required fields: %s", sorted(SetIter(missing)))

\* make(from_dict) called while the module dict holds `defaults`: the outcome
\* of the call and the contents of the two dicts that outlive it.
make(defaults, from_dict, order) ==
    LET heap0 == [r \in {"_DEFAULTS", "from_dict", "to_dict"} |->
                     IF r = "_DEFAULTS" THEN defaults
                     ELSE IF r = "from_dict" THEN from_dict
                     ELSE EmptyDict]
        new == make_to_dict(heap0)
        st0 == [bad_fields |-> <<>>,
                missing |-> _REQUIRED \ DOMAIN defaults,
                to_dict |-> new.ref,
                heap |-> new.heap]
        st == make_loop(st0, order, 1)
    IN  [out |-> IF st.bad_fields # <<>> THEN make_bad_fields_error(st.bad_fields)
                 ELSE IF st.missing # {} THEN make_missing_error(st.missing)
                 ELSE Return(st.heap[st.to_dict]),
         defaults |-> st.heap["_DEFAULTS"],
         from_dict |-> st.heap["from_dict"]]

(***************************************************************************)
(* base64.b64encode / base64.b64decode as called by _Serializer (lines 214 *)
(* and 218), over bytes.                                                   *)
(***************************************************************************)
\* '='
BASE64_PAD == 61

\* the base64 alphabet: A-Z a-z 0-9 + /
B64Char(i) ==
    IF i < 26 THEN 65 + i
    ELSE IF i < 52 THEN 97 + (i - 26)
    ELSE IF i < 62 THEN 48 + (i - 52)
    ELSE IF i = 62 THEN 43
    ELSE 47

\* the value of a character of the alphabet; -1 for any other byte; '=' counts as 0
B64Val(c) ==
    IF c \in 65..90 THEN c - 65
    ELSE IF c \in 97..122 THEN c - 97 + 26
    ELSE IF c \in 48..57 THEN c - 48 + 52
    ELSE IF c = 43 THEN 62
    ELSE IF c = 47 THEN 63
    ELSE IF c = BASE64_PAD THEN 0
    ELSE -1

\* three bytes give four characters; a last group of one or two bytes is padded with '='
RECURSIVE b64encode(_)
b64encode(s) ==
    IF Len(s) = 0 THEN <<>>
    ELSE IF Len(s) = 1 THEN
        <<B64Char(s[1] \div 4), B64Char((s[1] % 4) * 16), BASE64_PAD, BASE64_PAD>>
    ELSE IF Len(s) = 2 THEN
        <<B64Char(s[1] \div 4), B64Char((s[1] % 4) * 16 + s[2] \div 16),
          B64Char((s[2] % 16) * 4), BASE64_PAD>>
    ELSE
        <<B64Char(s[1] \div 4), B64Char((s[1] % 4) * 16 + s[2] \div 16),
          B64Char((s[2] % 16) * 4 + s[3] \div 64), B64Char(s[3] % 64)>>
        \o b64encode(SubSeq(s, 4, Len(s)))

\* the first character at or after position i that the decoder does not skip, after
\* `num` others have been passed over; -1 if there is none
RECURSIVE B64FindValid(_, _, _)
B64FindValid(s, i, num) ==
    IF i > Len(s) THEN -1
    ELSE IF s[i] <= 127 /\ B64Val(s[i]) # -1
         THEN IF num = 0 THEN s[i] ELSE B64FindValid(s, i + 1, num - 1)
    ELSE B64FindValid(s, i + 1, num)

\* 1 << n
RECURSIVE Pow2(_)
Pow2(n) == IF n = 0 THEN 1 ELSE 2 * Pow2(n - 1)

\* the decoder's scan: six bits are shifted in per character and a byte is
\* written whenever eight are available; a pad sequence ends the input
RECURSIVE B64Scan(_, _, _)
B64Scan(s, i, st) ==
    IF i > Len(s) THEN st
    ELSE IF s[i] > 127 \/ s[i] \in {13, 10, 32} THEN B64Scan(s, i + 1, st)
    ELSE IF s[i] = BASE64_PAD THEN
        IF st.quad_pos < 2 \/ (st.quad_pos = 2 /\ B64FindValid(s, i, 1) # BASE64_PAD)
        THEN B64Scan(s, i + 1, st)
        ELSE [st EXCEPT !.leftbits = 0]
    ELSE IF B64Val(s[i]) = -1 THEN B64Scan(s, i + 1, st)
    ELSE
        LET leftchar == st.leftchar * 64 + B64Val(s[i])
            leftbits == st.leftbits + 6
            quad_pos == (st.quad_pos + 1) % 4
        IN  IF leftbits >= 8
            THEN B64Scan(s, i + 1,
                     [quad_pos |-> quad_pos,
                      leftbits |-> leftbits - 8,
                      leftchar |-> leftchar % Pow2(leftbits - 8),
                      out |-> Append(st.out, (leftchar \div Pow2(leftbits - 8)) % 256)])
            ELSE B64Scan(s, i + 1,
                     [quad_pos |-> quad_pos, leftbits |-> leftbits,
                      leftchar |-> leftchar, out |-> st.out])

b64decode(s) ==
    LET st == B64Scan(s, 1, [quad_pos |-> 0, leftbits |-> 0, leftchar |-> 0, out |-> <<>>])
    IN  IF st.leftbits # 0 THEN Raise("TypeError", "Incorrect padding", <<>>)
        ELSE Return(st.out)

(***************************************************************************)
(* yaml.safe_load as called by _Serializer (lines 202 and 218), for the    *)
(* documents the pages exchange: a block mapping of plain scalars, one     *)
(* 'key: value' per line, the keys plain scalars that resolve to str.  A   *)
(* later entry for a key replaces an earlier one.  Any other document is   *)
(* reported as outside this subset.                                        *)
(***************************************************************************)
\* ': '
YAML_KEY_SEP == <<58, 32>>

\* '\n'
YAML_NEWLINE == <<10>>

\* position of the first byte c at or after i in s, or 0
RECURSIVE IndexOf(_, _, _)
IndexOf(s, c, i) ==
    IF i > Len(s) THEN 0
    ELSE IF s[i] = c THEN i
    ELSE IndexOf(s, c, i + 1)

\* the plain scalars the YAML 1.1 resolver reads as true, false and null
YAML_TRUE == {<<116, 114, 117, 101>>, <<84, 114, 117, 101>>, <<84, 82, 85, 69>>,
              <<121, 101, 115>>, <<89, 101, 115>>, <<89, 69, 83>>,
              <<111, 110>>, <<79, 110>>, <<79, 78>>}

YAML_FALSE == {<<102, 97, 108, 115, 101>>, <<70, 97, 108, 115, 101>>, <<70, 65, 76, 83, 69>>,
               <<110, 111>>, <<78, 111>>, <<78, 79>>,
               <<111, 102, 102>>, <<79, 102, 102>>, <<79, 70, 70>>}

YAML_NULL == {<<>>, <<126>>, <<110, 117, 108, 108>>, <<78, 117, 108, 108>>, <<78, 85, 76, 76>>}

RECURSIVE YamlDecimal(_, _)
YamlDecimal(raw, acc) ==
    IF raw = <<>> THEN acc ELSE YamlDecimal(Tail(raw), acc * 10 + (Head(raw) - 48))

YamlIsInt(raw) ==
    /\ raw # <<>>
    /\ \A i \in 1..Len(raw) : raw[i] \in 48..57
    /\ (Len(raw) > 1 => raw[1] # 48)

\* the value a plain scalar resolves to
YamlResolve(raw) ==
    IF raw \in YAML_TRUE THEN Bool(TRUE)
    ELSE IF raw \in YAML_FALSE THEN Bool(FALSE)
    ELSE IF raw \in YAML_NULL THEN None
    ELSE IF YamlIsInt(raw) THEN [t |-> "int", v |-> <<YamlDecimal(raw, 0)>>]
    ELSE Str(raw)

YamlUnmodelled == [t |-> "unmodelled", v |-> <<>>]

\* the lines of the document from position i on, added to the mapping d
RECURSIVE YamlLines(_, _, _)
YamlLines(text, i, d) ==
    IF i > Len(text) THEN [t |-> "dict", v |-> d]
    ELSE
        LET nl == IndexOf(text, 10, i)
            stop == IF nl = 0 THEN Len(text) + 1 ELSE nl
            line == SubSeq(text, i, stop - 1)
            colon == IndexOf(line, 58, 1)
        IN  IF line = <<>> THEN YamlLines(text, stop + 1, d)
            ELSE IF colon < 2 \/ colon >= Len(line) \/ line[colon + 1] # 32 THEN YamlUnmodelled
            ELSE YamlLines(text, stop + 1,
                     DictSet(d, SubSeq(line, 1, colon - 1),
                             YamlResolve(SubSeq(line, colon + 2, Len(line)))))

yaml_safe_load(text) ==
    IF text = <<>> THEN None ELSE YamlLines(text, 1, EmptyDict)

(***************************************************************************)
(* fields.py, _Serializer (lines 197-218).                                 *)
(***************************************************************************)
\* lines 206-208: for field_name in fields_dict, visiting the keys in `order`
RECURSIVE dump_loop(_, _, _)
dump_loop(order, i, bad_fields) ==
    IF i > Len(order) THEN bad_fields
    ELSE dump_loop(order, i + 1,
             IF ~_is_valid(order[i]) THEN Append(bad_fields, order[i]) ELSE bad_fields)

\* lines 210-212
dump_bad_fields_error(bad_fields) ==
    Raise("ValueError", "Cannot serialize invalid fields: %s", bad_fields)

\* the text is stripped before it is encoded
dump_return_stripped(fields_str) ==
    Return(b64encode(IF fields_str # <<>> /\ fields_str[Len(fields_str)] = 10
                     THEN SubSeq(fields_str, 1, Len(fields_str) - 1)
                     ELSE fields_str))

\* line 214
dump_return(fields_str) == Return(b64encode(fields_str))

dump(fields_str, order) ==
    LET fields_dict == yaml_safe_load(fields_str) IN
    IF fields_dict.t = "unmodelled" THEN Raise("unmodelled", "", <<>>)
    ELSE IF fields_dict.t # "dict" THEN Raise("TypeError", "object is not iterable", <<>>)
    ELSE LET bad_fields == dump_loop(order, 1, <<>>) IN
         IF bad_fields # <<>> THEN dump_bad_fields_error(bad_fields)
         ELSE dump_return(fields_str)

load(serialized) ==
    LET decoded == b64decode(serialized) IN
    IF decoded.kind = "raise" THEN decoded
    ELSE Return(yaml_safe_load(decoded.value))

\* the orders in which `for field_name in fields_dict` can visit what the text parses to
DumpOrders(text) ==
    LET fields_dict == yaml_safe_load(text) IN
    IF fields_dict.t = "dict" THEN Orders(DOMAIN fields_dict.v) ELSE {<<>>}

(***************************************************************************)
(* The callers of fields.py.  A request handler builds a field dict and    *)
(* passes it to make or get_custom_cb_force_login, or builds a YAML text   *)
(* and passes it to _Serializer.dump and the result to _Serializer.load.   *)
(* Its locals start empty with every request; _DEFAULTS lives as long as   *)
(* the module does.                                                        *)
(***************************************************************************)
MaxFields == 3

MaxLines == 2

\* 'custom_anything'
CUSTOM_ANYTHING == _CUSTOM_PREFIX \o <<97, 110, 121, 116, 104, 105, 110, 103>>
\* 'bogus_field'
BOGUS_FIELD == <<98, 111, 103, 117, 115, 95, 102, 105, 101, 108, 100>>
\* 'custom'
CUSTOM_NO_UNDERSCORE == <<99, 117, 115, 116, 111, 109>>
\* 'Roles'
ROLES_CAPITALIZED == <<82, 111, 108, 101, 115>>
\* 'x'
VALUE_X == <<120>>
\* 'other'
VALUE_OTHER == <<111, 116, 104, 101, 114>>

\* the keys a caller may put in from_dict: recognized ones, and ones that are not
FieldKeys ==
    {RESOURCE_LINK_ID, LTI_MESSAGE_TYPE, CUSTOM_CB_FORCE_LOGIN, CUSTOM_ANYTHING,
     BOGUS_FIELD, CUSTOM_NO_UNDERSCORE, ROLES_CAPITALIZED}

\* 'true', 'True', 'tRuE', 'TRUE', 'yes', '1', '', 'truee'
ForceLoginValues ==
    {Str(TRUE_LITERAL), Str(<<84, 114, 117, 101>>), Str(<<116, 82, 117, 69>>),
     Str(<<84, 82, 85, 69>>), Str(<<121, 101, 115>>), Str(<<49>>), Str(<<>>),
     Str(<<116, 114, 117, 101, 101>>)}

\* the values a caller may give a key
FieldValues(k) ==
    IF k = CUSTOM_CB_FORCE_LOGIN THEN ForceLoginValues
    ELSE IF k = LTI_MESSAGE_TYPE THEN {Str(_LTI_MESSAGE_TYPE_VALID), Str(VALUE_OTHER)}
    ELSE {Str(VALUE_X)}

\* 'custom_x', 'bogus', 'Zed'
YamlKeys == {ROLES, USER_ID, _CUSTOM_PREFIX \o VALUE_X, <<98, 111, 103, 117, 115>>, <<90, 101, 100>>}

\* 'x', 'true'
YamlValues == {VALUE_X, TRUE_LITERAL}

\* the number of lines of a text
RECURSIVE CountLines(_, _)
CountLines(text, i) ==
    IF i > Len(text) THEN 0
    ELSE (IF text[i] = 10 THEN 1 ELSE 0) + CountLines(text, i + 1)

NoCall == [op |-> "none", arg |-> <<>>, order |-> <<>>, out |-> Return(None), text |-> <<>>]

Init ==
    /\ _DEFAULTS = DEFAULTS_AT_IMPORT
    /\ fields = EmptyDict
    /\ yaml_text = <<>>
    /\ transport = <<>>
    /\ last = NoCall
    /\ overridden = FALSE
    /\ pc = "setUp"
    /\ driver = 0
    /\ tries = 0
    /\ attempts = 0
    /\ ex = 0
    /\ raised = 0
    /\ window_size = <<>>
    /\ loads = 0
    /\ page_unavail = FALSE
    /\ first_unavail = FALSE
    /\ ret = 0
    /\ returned = 0
    /\ calls = 0

\* a new request: the handler's locals are fresh
NewRequest ==
    /\ fields' = EmptyDict
    /\ yaml_text' = <<>>
    /\ transport' = <<>>
    /\ last' = NoCall
    /\ UNCHANGED <<_DEFAULTS, overridden, test_vars>>

\* the caller sets from_dict[k] = v
SetField(k, v) ==
    /\ yaml_text = <<>>
    /\ transport = <<>>
    /\ Cardinality(DOMAIN fields \cup {k}) <= MaxFields
    /\ fields' = DictSet(fields, k, v)
    /\ last' = NoCall
    /\ UNCHANGED <<_DEFAULTS, yaml_text, transport, overridden, test_vars>>

\* fields.make(from_dict), the dict's entries coming in `order`
Make(order) ==
    /\ yaml_text = <<>>
    /\ transport = <<>>
    /\ LET r == make(_DEFAULTS, fields, order) IN
        /\ last' = [op |-> "make", arg |-> fields, order |-> order, out |-> r.out,
                    text |-> <<>>]
        /\ _DEFAULTS' = r.defaults
        /\ fields' = r.from_dict
    /\ overridden' = (overridden \/ LTI_MESSAGE_TYPE \in DOMAIN fields
                                  \/ LTI_VERSION \in DOMAIN fields)
    /\ UNCHANGED <<yaml_text, transport, test_vars>>

\* fields.get_custom_cb_force_login(request_dict)
GetCustomCbForceLogin ==
    /\ yaml_text = <<>>
    /\ transport = <<>>
    /\ last' = [op |-> "get_custom_cb_force_login", arg |-> fields, order |-> <<>>,
                out |-> get_custom_cb_force_login(fields), text |-> <<>>]
    /\ UNCHANGED <<_DEFAULTS, fields, yaml_text, transport, overridden, test_vars>>

\* the caller adds the line 'k: v\n' to fields_str
AppendLine(k, v) ==
    /\ fields = EmptyDict
    /\ CountLines(yaml_text, 1) < MaxLines
    /\ yaml_text' = yaml_text \o k \o YAML_KEY_SEP \o v \o YAML_NEWLINE
    /\ transport' = <<>>
    /\ last' = NoCall
    /\ UNCHANGED <<_DEFAULTS, fields, overridden, test_vars>>

\* _Serializer.dump(fields_str), the parsed dict's keys coming in `order`
Dump(order) ==
    /\ fields = EmptyDict
    /\ LET out == dump(yaml_text, order) IN
        /\ last' = [op |-> "dump", arg |-> yaml_text, order |-> order, out |-> out,
                    text |-> yaml_text]
        /\ transport' = IF out.kind = "return" THEN out.value ELSE <<>>
    /\ UNCHANGED <<_DEFAULTS, fields, yaml_text, overridden, test_vars>>

\* _Serializer.load(serialized) on what dump has just returned
Load ==
    /\ fields = EmptyDict
    /\ last.op = "dump"
    /\ last.out.kind = "return"
    /\ last' = [op |-> "load", arg |-> transport, order |-> <<>>, out |-> load(transport),
                text |-> yaml_text]
    /\ UNCHANGED <<_DEFAULTS, fields, yaml_text, transport, overridden, test_vars>>

Next ==
    \/ NewRequest
    \/ \E k \in FieldKeys : \E v \in FieldValues(k) : SetField(k, v)
    \/ \E order \in Orders(DOMAIN fields) : Make(order)
    \/ GetCustomCbForceLogin
    \/ \E k \in YamlKeys : \E v \in YamlValues : AppendLine(k, v)
    \/ \E order \in DumpOrders(yaml_text) : Dump(order)
    \/ Load

Spec == Init /\ [][Next]_vars

(***************************************************************************)
(* integration.py, TestBase: one test runs setUp, then calls               *)
(* load_root_page (directly, or through load_course, login, logout,        *)
(* set_admin_setting) some number of times, then tearDown.  What the       *)
(* browser does (whether the Chrome driver connects, whether a loaded page *)
(* shows the not-available marker) is the environment's choice.            *)
(***************************************************************************)
MaxCalls == 2

BROWSER_WIDTH == 1600

BROWSER_HEIGHT == 1000

\* line 54: tries = 10
SETUP_TRIES == 10

\* line 79: tries = 10
LOAD_TRIES == 10

\* line 56: tries -= 1
setUp_tries_decrement(n) == n - 1

\* line 81: tries -= 1
load_root_page_tries_decrement(n) == n - 1

\* if tries >= 0
setUp_may_retry_at_zero(n) == n >= 0

\* line 61: if tries
setUp_may_retry(n) == n # 0

\* line 80: while tries and 'This webpage is not avail' in self.driver.page_source
load_root_page_again(n, unavail) == n # 0 /\ unavail

\* the reload's result is dropped
load_root_page_ret_first(old, loaded) == old

\* line 83: ret = pageobjects.RootPage(self).load(...), `loaded` the result of the load
load_root_page_ret(old, loaded) == loaded

\* lines 53-54
SetUpBegin ==
    /\ pc = "setUp"
    /\ driver' = 0
    /\ tries' = SETUP_TRIES
    /\ pc' = "setUp_while"
    /\ UNCHANGED <<lti_vars, attempts, ex, raised, window_size, loads, page_unavail,
                   first_unavail, ret, returned, calls>>

\* lines 55-58: an iteration in which webdriver.Chrome returns a driver
SetUpConnect ==
    /\ pc = "setUp_while"
    /\ driver = 0
    /\ tries' = setUp_tries_decrement(tries)
    /\ attempts' = attempts + 1
    /\ driver' = attempts + 1
    /\ UNCHANGED <<lti_vars, pc, ex, raised, window_size, loads, page_unavail,
                   first_unavail, ret, returned, calls>>

\* lines 55-63: an iteration in which webdriver.Chrome raises WebDriverException
\* and tries are left
SetUpRetry ==
    /\ pc = "setUp_while"
    /\ driver = 0
    /\ setUp_may_retry(setUp_tries_decrement(tries))
    /\ tries' = setUp_tries_decrement(tries)
    /\ attempts' = attempts + 1
    /\ ex' = attempts + 1
    /\ UNCHANGED <<lti_vars, pc, driver, raised, window_size, loads, page_unavail,
                   first_unavail, ret, returned, calls>>

\* lines 55-65: an iteration in which webdriver.Chrome raises WebDriverException
\* and no tries are left: raise ex
SetUpRaise ==
    /\ pc = "setUp_while"
    /\ driver = 0
    /\ ~setUp_may_retry(setUp_tries_decrement(tries))
    /\ tries' = setUp_tries_decrement(tries)
    /\ attempts' = attempts + 1
    /\ ex' = attempts + 1
    /\ raised' = attempts + 1
    /\ pc' = "setUp_raised"
    /\ UNCHANGED <<lti_vars, driver, window_size, loads, page_unavail,
                   first_unavail, ret, returned, calls>>

\* line 55, the loop ends, and line 69
SetWindowSize ==
    /\ pc = "setUp_while"
    /\ driver # 0
    /\ window_size' = <<BROWSER_WIDTH, BROWSER_HEIGHT>>
    /\ pc' = "ready"
    /\ UNCHANGED <<lti_vars, driver, tries, attempts, ex, raised, loads, page_unavail,
                   first_unavail, ret, returned, calls>>

\* lines 76-79: the first load
LoadRootPage(unavail) ==
    /\ pc = "ready"
    /\ calls < MaxCalls
    /\ loads' = 1
    /\ ret' = 1
    /\ page_unavail' = unavail
    /\ first_unavail' = unavail
    /\ tries' = LOAD_TRIES
    /\ pc' = "load_while"
    /\ UNCHANGED <<lti_vars, driver, attempts, ex, raised, window_size, returned, calls>>

\* lines 80-83: one iteration of the loop
LoadAgain(unavail) ==
    /\ pc = "load_while"
    /\ load_root_page_again(tries, page_unavail)
    /\ tries' = load_root_page_tries_decrement(tries)
    /\ loads' = loads + 1
    /\ ret' = load_root_page_ret(ret, loads + 1)
    /\ page_unavail' = unavail
    /\ UNCHANGED <<lti_vars, pc, driver, attempts, ex, raised, window_size,
                   first_unavail, returned, calls>>

\* line 80, the loop ends, and line 84
LoadReturn ==
    /\ pc = "load_while"
    /\ ~load_root_page_again(tries, page_unavail)
    /\ returned' = ret
    /\ calls' = calls + 1
    /\ pc' = "ready"
    /\ UNCHANGED <<lti_vars, driver, tries, attempts, ex, raised, window_size, loads,
                   page_unavail, first_unavail, ret>>

\* lines 71-74
TearDown ==
    /\ pc = "ready"
    /\ driver' = 0
    /\ pc' = "done"
    /\ UNCHANGED <<lti_vars, tries, attempts, ex, raised, window_size, loads,
                   page_unavail, first_unavail, ret, returned, calls>>

TestNext ==
    \/ SetUpBegin
    \/ SetUpConnect
    \/ SetUpRetry
    \/ SetUpRaise
    \/ SetWindowSize
    \/ \E unavail \in BOOLEAN : LoadRootPage(unavail)
    \/ \E unavail \in BOOLEAN : LoadAgain(unavail)
    \/ LoadReturn
    \/ TearDown

\* The test is sequential code: while a step is possible, one is taken.
TestSpec == Init /\ [][TestNext]_vars /\ WF_vars(TestNext)

(***************************************************************************)
(* Properties of make.                                                     *)
(***************************************************************************)
\* A recognized field name: one of the LTI names, one of the two CB
\* extensions, or any name that begins with 'custom_'.
Recognized(name) ==
    \/ name \in _BASE \cup _EXTENSIONS
    \/ /\ Len(name) >= 7
       /\ \A i \in 1..7 : name[i] = _CUSTOM_PREFIX[i]

\* a comes strictly before b in lexicographic (byte) order
LexBefore(a, b) ==
    \E i \in 1..Len(b) :
        /\ \A j \in 1..(i - 1) : j <= Len(a) /\ a[j] = b[j]
        /\ \/ Len(a) = i - 1
           \/ Len(a) >= i /\ a[i] < b[i]

\* names lists exactly the members of S, each once, in lexicographic order
ListsSorted(names, S) ==
    /\ {names[i] : i \in 1..Len(names)} = S
    /\ \A i \in 1..(Len(names) - 1) : LexBefore(names[i], names[i + 1])

Unrecognized(d) == {k \in DOMAIN d : ~Recognized(k)}

MakeCase == last.op = "make"

MakeValidCase ==
    /\ last.op = "make"
    /\ Unrecognized(last.arg) = {}
    /\ RESOURCE_LINK_ID \in DOMAIN last.arg

\* C1 as claimed: for an input of recognized keys that holds resource_link_id, make
\* returns a mapping holding every input pair and both default pairs
\* (lti_message_type = 'basic-lti-launch-request', lti_version = 'LTI-1p0').
C1_SupersetOfInputAndDefaults ==
    MakeValidCase =>
        /\ last.out.kind = "return"
        /\ \A k \in DOMAIN last.arg :
            k \in DOMAIN last.out.value /\ last.out.value[k] = last.arg[k]
        /\ \A k \in DOMAIN DEFAULTS_AT_IMPORT :
            k \in DOMAIN last.out.value /\ last.out.value[k] = DEFAULTS_AT_IMPORT[k]

\* C1 amended: for an input of recognized keys that holds resource_link_id, make
\* returns a mapping holding every input pair and every default pair whose key the
\* input does not supply.
C1_SupersetOfInputAndUnsuppliedDefaults ==
    MakeValidCase =>
        /\ last.out.kind = "return"
        /\ \A k \in DOMAIN last.arg :
            k \in DOMAIN last.out.value /\ last.out.value[k] = last.arg[k]
        /\ \A k \in DOMAIN DEFAULTS_AT_IMPORT \ DOMAIN last.arg :
            k \in DOMAIN last.out.value /\ last.out.value[k] = DEFAULTS_AT_IMPORT[k]

C1_Witness ==
    /\ MakeValidCase
    /\ LTI_MESSAGE_TYPE \in DOMAIN last.arg
    /\ last.arg[LTI_MESSAGE_TYPE] = Str(VALUE_OTHER)
    /\ CUSTOM_ANYTHING \in DOMAIN last.arg
    /\ last.out.kind = "return"
    /\ last.out.value[LTI_VERSION] = Str(_LTI_VERSION_VALID)

\* C2: for an input with at least one unrecognized key, make raises the bad-fields
\* error, whether or not resource_link_id is present, and the error lists exactly
\* the unrecognized keys, each once, in lexicographic order.
C2_InvalidFieldListsBadKeysSorted ==
    (MakeCase /\ Unrecognized(last.arg) # {}) =>
        /\ last.out.kind = "raise"
        /\ last.out.exc = "ValueError"
        /\ last.out.fmt = "Cannot include bad fields: %s"
        /\ Len(last.out.names) = Cardinality(Unrecognized(last.arg))
        /\ ListsSorted(last.out.names, Unrecognized(last.arg))

C2_Witness ==
    /\ MakeCase
    /\ RESOURCE_LINK_ID \notin DOMAIN last.arg
    /\ Cardinality(Unrecognized(last.arg)) = 2
    /\ Cardinality(DOMAIN last.arg) = 3
    /\ ~Recognized(last.order[1])
    /\ ~Recognized(last.order[3])
    /\ LexBefore(last.order[3], last.order[1])
    /\ last.out.kind = "raise"
    /\ Len(last.out.names) = 2

\* the required keys that neither the input nor the defaults supply
MissingRequired(d) == {k \in _REQUIRED : k \notin DOMAIN d /\ k \notin DOMAIN DEFAULTS_AT_IMPORT}

MissingFieldsRaised ==
    /\ last.out.kind = "raise"
    /\ last.out.exc = "ValueError"
    /\ last.out.fmt = "Missing required fields: %s"
    /\ Len(last.out.names) = Cardinality(MissingRequired(last.arg))
    /\ ListsSorted(last.out.names, MissingRequired(last.arg))

\* C3 as claimed: for every input that lacks resource_link_id, make raises the
\* missing-fields error listing exactly the missing required keys, sorted.
C3_MissingRequiredForEveryInput ==
    (MakeCase /\ RESOURCE_LINK_ID \notin DOMAIN last.arg) => MissingFieldsRaised

\* C3 amended: for every input of recognized keys that lacks resource_link_id, make
\* raises the missing-fields error listing exactly the missing required keys, sorted.
C3_MissingRequiredForRecognizedInput ==
    (MakeCase /\ RESOURCE_LINK_ID \notin DOMAIN last.arg /\ Unrecognized(last.arg) = {})
        => MissingFieldsRaised

C3_Witness ==
    /\ MakeCase
    /\ RESOURCE_LINK_ID \notin DOMAIN last.arg
    /\ Unrecognized(last.arg) = {}
    /\ Cardinality(DOMAIN last.arg) = 2
    /\ last.out.kind = "raise"
    /\ last.out.names = <<RESOURCE_LINK_ID>>

\* C7: make has no side effects: whatever calls have been made, the module's
\* defaults are those set at import and the dict passed to the last make is as it
\* was passed, so make({resource_link_id: x}) returns the two defaults with it.
C7_MakeLeavesDefaultsAndInput ==
    /\ _DEFAULTS = DEFAULTS_AT_IMPORT
    /\ MakeCase => fields = last.arg
    /\ (MakeCase /\ DOMAIN last.arg = {RESOURCE_LINK_ID}) =>
        /\ last.out.kind = "return"
        /\ DOMAIN last.out.value = {RESOURCE_LINK_ID, LTI_MESSAGE_TYPE, LTI_VERSION}
        /\ last.out.value[RESOURCE_LINK_ID] = last.arg[RESOURCE_LINK_ID]
        /\ last.out.value[LTI_MESSAGE_TYPE] = Str(_LTI_MESSAGE_TYPE_VALID)
        /\ last.out.value[LTI_VERSION] = Str(_LTI_VERSION_VALID)

C7_Witness ==
    /\ overridden
    /\ MakeCase
    /\ DOMAIN last.arg = {RESOURCE_LINK_ID}
    /\ last.out.kind = "return"
    /\ last.out.value[LTI_MESSAGE_TYPE] = Str(_LTI_MESSAGE_TYPE_VALID)

\* C8: the outcome of make does not depend on the order in which the input's
\* entries are visited: every order gives the outcome the call gave.
C8_MakeOrderIndependent ==
    MakeCase =>
        \A o \in Orders(DOMAIN last.arg) :
            make(DEFAULTS_AT_IMPORT, last.arg, o).out = last.out

C8_Witness ==
    /\ MakeCase
    /\ Cardinality(DOMAIN last.arg) = 3
    /\ Cardinality(Unrecognized(last.arg)) = 2
    /\ RESOURCE_LINK_ID \in DOMAIN last.arg
    /\ ~Recognized(last.order[1])
    /\ ~Recognized(last.order[2])
    /\ LexBefore(last.order[2], last.order[1])
    /\ last.out.kind = "raise"
    /\ last.out.names = <<last.order[2], last.order[1]>>

(***************************************************************************)
(* Properties of _Serializer and get_custom_cb_force_login.                *)
(***************************************************************************)
\* the text parses to a mapping
ParsesToMapping(text) == yaml_safe_load(text).t = "dict"

\* the keys of the mapping the text parses to that are not recognized
UnrecognizedIn(text) == Unrecognized(yaml_safe_load(text).v)

\* payload is the base64 of text: four characters of the alphabet (or '=') for
\* every three bytes begun, which decode to the bytes of text
IsBase64Of(payload, text) ==
    /\ Len(payload) = 4 * ((Len(text) + 2) \div 3)
    /\ \A i \in 1..Len(payload) :
        \/ payload[i] \in 65..90
        \/ payload[i] \in 97..122
        \/ payload[i] \in 48..57
        \/ payload[i] \in {43, 47, 61}
    /\ b64decode(payload) = Return(text)

\* C4: for a text that parses to a mapping of recognized keys, dump returns the
\* base64 of the text as given, and load of what dump returned is the mapping the
\* text itself parses to.
C4_DumpLoadRoundTrip ==
    /\ (last.op = "dump" /\ ParsesToMapping(last.arg) /\ UnrecognizedIn(last.arg) = {}) =>
        /\ last.out.kind = "return"
        /\ IsBase64Of(last.out.value, last.arg)
    /\ last.op = "load" =>
        /\ IsBase64Of(last.arg, last.text)
        /\ last.out = Return(yaml_safe_load(last.text))

C4_Witness ==
    /\ last.op = "load"
    /\ Len(last.text) % 3 = 1
    /\ CountLines(last.text, 1) = 2
    /\ last.out.kind = "return"
    /\ last.out.value.t = "dict"
    /\ Cardinality(DOMAIN last.out.value.v) = 1
    /\ \E k \in DOMAIN last.out.value.v : last.out.value.v[k] = Bool(TRUE)

\* C5: for a text whose mapping has at least one unrecognized key, dump raises the
\* invalid-fields error, returns no encoded string, and the error lists exactly the
\* unrecognized keys in sorted order.
C5_DumpListsBadKeysSorted ==
    (last.op = "dump" /\ ParsesToMapping(last.arg) /\ UnrecognizedIn(last.arg) # {}) =>
        /\ last.out.kind = "raise"
        /\ last.out.exc = "ValueError"
        /\ last.out.fmt = "Cannot serialize invalid fields: %s"
        /\ transport = <<>>
        /\ Len(last.out.names) = Cardinality(UnrecognizedIn(last.arg))
        /\ ListsSorted(last.out.names, UnrecognizedIn(last.arg))

\* d gives custom_cb_force_login a str that is 'true' up to the case of its letters
ForceLoginIsTrue(d) ==
    /\ CUSTOM_CB_FORCE_LOGIN \in DOMAIN d
    /\ d[CUSTOM_CB_FORCE_LOGIN].t = "str"
    /\ LET v == d[CUSTOM_CB_FORCE_LOGIN].v IN
        /\ Len(v) = 4
        /\ v[1] \in {116, 84}
        /\ v[2] \in {114, 82}
        /\ v[3] \in {117, 85}
        /\ v[4] \in {101, 69}

\* C6: get_custom_cb_force_login returns False when custom_cb_force_login is
\* absent, True exactly when its value is 'true' up to letter case, and False for
\* every other value.
C6_ForceLoginTrueIffTrueIgnoringCase ==
    last.op = "get_custom_cb_force_login" =>
        last.out = Return(Bool(ForceLoginIsTrue(last.arg)))

C6_Witness ==
    /\ last.op = "get_custom_cb_force_login"
    /\ CUSTOM_CB_FORCE_LOGIN \in DOMAIN last.arg
    /\ last.arg[CUSTOM_CB_FORCE_LOGIN] = Str(<<116, 82, 117, 69>>)
    /\ last.out = Return(Bool(TRUE))

(***************************************************************************)
(* Properties of TestBase.setUp and TestBase.load_root_page.               *)
(***************************************************************************)
InSetUp == pc \in {"setUp", "setUp_while"}

SetUpSafe ==
    /\ attempts <= SETUP_TRIES
    /\ (pc = "setUp_while" /\ driver # 0) => driver = attempts
    /\ window_size # <<>> => (pc \notin {"setUp", "setUp_while", "setUp_raised"} /\ attempts >= 1)
    /\ pc \in {"ready", "load_while"} =>
        (driver # 0 /\ driver = attempts /\ window_size = <<BROWSER_WIDTH, BROWSER_HEIGHT>>)
    /\ pc = "setUp_raised" =>
        /\ attempts = SETUP_TRIES
        /\ raised = SETUP_TRIES
        /\ driver = 0
        /\ window_size = <<>>

\* C9: setUp's retry loop ends: it calls webdriver.Chrome at most 10 times, stops
\* at the first call that returns a driver and only then sets the window size, and
\* when all 10 calls raise it re-raises the 10th call's exception, with no 11th call
\* and no window size set.
C9_SetUpRetryTerminates ==
    /\ []SetUpSafe
    /\ <>(~InSetUp)

C9_Witness ==
    /\ pc = "setUp_raised"
    /\ attempts = SETUP_TRIES
    /\ raised = SETUP_TRIES
    /\ window_size = <<>>

LoadRootPageSafe ==
    /\ loads <= LOAD_TRIES + 1
    /\ (calls > 0 /\ pc # "load_while") =>
        /\ returned = loads
        /\ ~first_unavail => loads = 1

\* a reload happens only while the page shows the marker
ReloadOnlyWhileUnavailable ==
    (pc = "load_while" /\ loads' = loads + 1) => page_unavail

\* C10: load_root_page loads once and reloads only while the page shows the
\* not-available marker, at most 10 more times; it always returns, and returns the
\* result of the last load, even when the page is still unavailable after the last
\* retry; it does not reload when the first load is available.
C10_LoadRootPageRetries ==
    /\ []LoadRootPageSafe
    /\ [][ReloadOnlyWhileUnavailable]_vars
    /\ (pc = "load_while" ~> pc = "ready")

C10_Witness ==
    /\ pc = "ready"
    /\ calls = 1
    /\ loads = LOAD_TRIES + 1
    /\ returned = LOAD_TRIES + 1
    /\ page_unavail

=============================================================================
